---- MODULE Spec2Model ----
(***************************************************************************)
(* Model of the filesystem persistence adapter                             *)
(* (src/src/module.persistence.filesystem.js).                             *)
(*                                                                         *)
(* The adapter keeps one JSON file per subject.  Every operation is an     *)
(* async function: it runs synchronously up to its first filesystem        *)
(* request and continues in the callback of that request.  The steps of    *)
(* an operation are therefore its call (validation, dispatch, the first    *)
(* request) and one step per filesystem request it awaits; steps of calls  *)
(* that are in flight together interleave freely.                          *)
(***************************************************************************)
EXTENDS Integers, Sequences, FiniteSets, TLC

VARIABLES files, calls, created, roundtrip

vars == <<files, calls, created, roundtrip>>

(***************************************************************************)
(* Bounds of the model.                                                    *)
(***************************************************************************)
\* number of calls that can be in flight together (call slots are reused)
MaxCalls == 2
\* number of mutations issued back to back in a burst
MaxBurst == 2
\* number of CREATE calls issued together
MaxCreate == 3
\* number of objects listed under a predicate before further ones are withheld
MaxListed == 2
\* number of calls with a timeout argument issued together
MaxTimed == 2
\* number of DELETE calls of whole subjects issued together
MaxDelete == 2

(***************************************************************************)
(* Terms: the JavaScript values handed to the adapter, by name.  Chars     *)
(* gives String(value), the text the regular expressions are tested on;    *)
(* TypeOf gives typeof value.                                              *)
(***************************************************************************)
Undefined == "undefined"
Obj == "#obj"
Null == "#null"
RdfsResource == "rdfs:Resource"
\* the numbers NaN, 5 and -1
NaN == "#NaN"
Num5 == "#5"
NumNeg == "#-1"
\* the array ["ex:a", "ex:b"] and the empty array
ArrIds == "#[ex:a,ex:b]"
ArrEmpty == "#[]"

\* Array.isArray(t), and the elements of an array
IsArray(t) == t \in {ArrIds, ArrEmpty}

Elems(t) ==
    CASE t = ArrIds   -> <<"ex:a", "ex:b">>
      [] t = ArrEmpty -> <<>>

Chars(t) ==
    CASE t = "ex:s"      -> <<"e", "x", ":", "s">>
      [] t = "ex:t"      -> <<"e", "x", ":", "t">>
      [] t = "no id"     -> <<"n", "o", " ", "i", "d">>
      [] t = "ex:p"      -> <<"e", "x", ":", "p">>
      [] t = "ex:a"      -> <<"e", "x", ":", "a">>
      [] t = "ex:b"      -> <<"e", "x", ":", "b">>
      [] t = "label"     -> <<"l", "a", "b", "e", "l">>
      [] t = "@type"     -> <<"@", "t", "y", "p", "e">>
      [] t = "@id"       -> <<"@", "i", "d">>
      [] t = ""          -> <<>>
      [] t = " "         -> <<" ">>
      [] t = "hi w"      -> <<"h", "i", " ", "w">>
      [] t = RdfsResource -> <<"r", "d", "f", "s", ":", "R", "e", "s", "o", "u", "r", "c", "e">>
      [] t = Obj         -> <<"[", "o", "b", "j", "e", "c", "t", " ", "O", "b", "j", "e", "c", "t", "]">>
      [] t = Null        -> <<"n", "u", "l", "l">>
      [] t = Undefined   -> <<"u", "n", "d", "e", "f", "i", "n", "e", "d">>
      [] t = NaN         -> <<"N", "a", "N">>
      [] t = Num5        -> <<"5">>
      [] t = NumNeg      -> <<"-", "1">>
      [] t = ArrIds      -> <<"e", "x", ":", "a", ",", "e", "x", ":", "b">>
      [] t = ArrEmpty    -> <<>>

TypeOf(t) ==
    CASE t = Obj       -> "object"
      [] t = Null      -> "object"
      [] IsArray(t)    -> "object"
      [] t \in {NaN, Num5, NumNeg} -> "number"
      [] t = Undefined -> "undefined"
      [] OTHER         -> "string"

\* value > 0 for a number
greater_than_0(t) == t = Num5

\* JavaScript truthiness of a term: null, undefined, NaN and the empty string
\* are falsy
Truthy(t) ==
    ~(t = Null \/ t = NaN \/ TypeOf(t) = "undefined" \/ (TypeOf(t) = "string" /\ Chars(t) = <<>>))

WordChars ==
    {"a", "b", "c", "d", "e", "f", "g", "h", "i", "j", "k", "l", "m", "n", "o",
     "p", "q", "r", "s", "t", "u", "v", "w", "x", "y", "z", "N", "O", "R", "_",
     "0", "1", "2", "3", "4", "5", "6", "7", "8", "9"}

IsWord(ch) == ch \in WordChars
IsSpace(ch) == ch = " "

\* /^https?:\/\/\S+$/
regex_http(s) ==
    \E n \in {4, 5} :
        /\ Len(s) > n + 3
        /\ SubSeq(s, 1, 4) = <<"h", "t", "t", "p">>
        /\ (n = 5 => s[5] = "s")
        /\ SubSeq(s, n + 1, n + 3) = <<":", "/", "/">>
        /\ \A j \in (n + 4)..Len(s) : ~IsSpace(s[j])

\* /^\w+:\S+$/
regex_prefixed(s) ==
    \E i \in 2..(Len(s) - 1) :
        /\ s[i] = ":"
        /\ \A j \in 1..(i - 1) : IsWord(s[j])
        /\ \A j \in (i + 1)..Len(s) : ~IsSpace(s[j])

regex_semantic_id(s) == regex_http(s) \/ regex_prefixed(s)

\* /\S/
regex_nonempty_key(s) == \E i \in 1..Len(s) : ~IsSpace(s[i])

array_primitive_types == {"boolean", "number", "string"}

is_nonempty_key(value) == regex_nonempty_key(Chars(value))

is_semantic_id(value) == regex_semantic_id(Chars(value))

is_primitive_value(value) ==
    \/ value = Null
    \/ TypeOf(value) \in array_primitive_types
    \/ /\ IsArray(value)
       /\ \E type \in array_primitive_types :
            \A i \in 1..Len(Elems(value)) : TypeOf(Elems(value)[i]) = type

(***************************************************************************)
(* JSON values and records.  A stored value is a scalar or an array of     *)
(* scalars; a record (the parsed content of a file) is a function from     *)
(* its keys to values.  An item of an array that is an array term is a     *)
(* nested array.                                                           *)
(***************************************************************************)
Scalar(t) == [arr |-> FALSE, items |-> <<t>>]
Array(ts) == [arr |-> TRUE, items |-> ts]

\* a term as a value: an array term is the array of its elements
Value(t) == IF IsArray(t) THEN Array(Elems(t)) ELSE Scalar(t)

\* JSON.parse(JSON.stringify(t)) of a scalar: JSON has no NaN, it is written
\* as null
json_scalar(t) == IF t = NaN THEN Null ELSE t

\* JSON.parse(JSON.stringify(value)): the value a file gives back
json_value(value) == [value EXCEPT !.items = [i \in 1..Len(value.items) |-> json_scalar(value.items[i])]]

EmptyJson == [k \in {} |-> Scalar("")]

\* json[key] = value
json_set(json, key, value) == [k \in DOMAIN json \cup {key} |-> IF k = key THEN value ELSE json[k]]

\* delete json[key]
json_delete(json, key) == [k \in DOMAIN json \ {key} |-> json[k]]

\* Array.isArray(json[key])
json_isArray(json, key) == key \in DOMAIN json /\ json[key].arr

\* array.includes(x) on a parsed array: an array x is an object of its own
\* and is no item of it
includes(items, x) == ~IsArray(x) /\ \E i \in 1..Len(items) : items[i] = x

\* array.indexOf(x), 0-based, -1 when absent
indexOf(items, x) ==
    IF includes(items, x)
    THEN (CHOOSE i \in 1..Len(items) : items[i] = x /\ \A j \in 1..(i - 1) : items[j] # x) - 1
    ELSE -1

\* array.splice(index, 1), index 0-based
splice1(items, index) == SubSeq(items, 1, index) \o SubSeq(items, index + 2, Len(items))

\* the length of JSON.stringify(json), counted in characters
RECURSIVE ItemsLen(_)

scalar_length(t) ==
    IF t = Null \/ t = NaN THEN 4
    ELSE IF TypeOf(t) = "number" THEN Len(Chars(t))
    ELSE IF IsArray(t) THEN 2 + ItemsLen(Elems(t))
    ELSE Len(Chars(t)) + 2

ItemsLen(items) ==
    IF items = <<>> THEN 0
    ELSE scalar_length(Head(items)) + (IF Len(items) > 1 THEN 1 ELSE 0) + ItemsLen(Tail(items))

value_length(value) ==
    IF value.arr THEN 2 + ItemsLen(value.items) ELSE scalar_length(value.items[1])

RECURSIVE KeysLen(_, _)
KeysLen(json, keys) ==
    IF keys = {} THEN 0
    ELSE LET k == CHOOSE x \in keys : TRUE
         IN  Len(Chars(k)) + 3 + value_length(json[k])
             + (IF Cardinality(keys) > 1 THEN 1 ELSE 0) + KeysLen(json, keys \ {k})

stringify_length(json) == 2 + KeysLen(json, DOMAIN json)

(***************************************************************************)
(* The filesystem.  files[s] is the file at get_file_path(s):              *)
(*   none     no such file                                                 *)
(*   json     the file holds JSON.stringify(json)                          *)
(*   empty    the file was opened with flag "w" or "wx" (created or        *)
(*            truncated) and the data has not been written yet             *)
(*   garbled  a shorter text was written over a longer one through a       *)
(*            second handle: the tail of the longer text (of json) remains *)
(* The files are indexed by the subject; file_name is the name that        *)
(* get_file_path gives the file of a subject in the root folder, the       *)
(* base64 text of the subject followed by ".json".                         *)
(***************************************************************************)
Subjects == {"ex:s", "ex:t"}

\* get_file_path with one file for all subjects
get_file_path_shared(name) == "ex:s"

get_file_path(name) == name

\* the UTF-8 bytes of Buffer.from(name), for the characters of the names
char_code(ch) ==
    CASE ch = "e" -> 101
      [] ch = "x" -> 120
      [] ch = ":" -> 58
      [] ch = "s" -> 115
      [] ch = "t" -> 116
      [] ch = "a" -> 97
      [] ch = "b" -> 98
      [] ch = "p" -> 112
      [] ch = "n" -> 110
      [] ch = "o" -> 111
      [] ch = " " -> 32
      [] ch = "i" -> 105
      [] ch = "d" -> 100

Bytes(name) == [i \in 1..Len(Chars(name)) |-> char_code(Chars(name)[i])]

Base64Alphabet ==
    <<"A", "B", "C", "D", "E", "F", "G", "H", "I", "J", "K", "L", "M", "N", "O", "P",
     "Q", "R", "S", "T", "U", "V", "W", "X", "Y", "Z", "a", "b", "c", "d", "e", "f",
     "g", "h", "i", "j", "k", "l", "m", "n", "o", "p", "q", "r", "s", "t", "u", "v",
     "w", "x", "y", "z", "0", "1", "2", "3", "4", "5", "6", "7", "8", "9", "+", "/">>

\* buffer.toString("base64"): three bytes give four characters, a last group
\* of one or two bytes is padded with "="
RECURSIVE base64(_)
base64(bytes) ==
    IF bytes = <<>> THEN <<>>
    ELSE LET n == Len(bytes)
             b2 == IF n > 1 THEN bytes[2] ELSE 0
             b3 == IF n > 2 THEN bytes[3] ELSE 0
             v == bytes[1] * 65536 + b2 * 256 + b3
         IN  << Base64Alphabet[(v \div 262144) + 1],
                Base64Alphabet[((v \div 4096) % 64) + 1],
                IF n > 1 THEN Base64Alphabet[((v \div 64) % 64) + 1] ELSE "=",
                IF n > 2 THEN Base64Alphabet[(v % 64) + 1] ELSE "=" >>
             \o base64(SubSeq(bytes, 4, n))

\* Buffer.from(name).toString("base64") + ".json"
file_name(name) == base64(Bytes(name)) \o <<".", "j", "s", "o", "n">>

NoFile == [st |-> "none", json |-> EmptyJson]
EmptyFile == [st |-> "empty", json |-> EmptyJson]
JsonFile(json) == [st |-> "json", json |-> json]
GarbledFile(json) == [st |-> "garbled", json |-> json]

\* the record operation_fs_create writes
initial_json(subject) ==
    json_set(json_set(EmptyJson, "@id", Scalar(subject)), "@type", Array(<<RdfsResource>>))

(***************************************************************************)
(* Node's fs module, as far as the adapter uses it.  fs.writeFile opens    *)
(* the file, writes the data and closes it in separate steps of the thread *)
(* pool, so callbacks of other requests run in between; fs.readFile is     *)
(* taken as one step.  unlink follows POSIX: the name goes at once, open   *)
(* handles keep the unlinked file.                                         *)
(***************************************************************************)
Fs_errCodes == [access_denied |-> "EACCES", not_found |-> "ENOENT", do_exist |-> "EEXIST"]

Fs_sysFlags == [read |-> "r", write |-> "w", create |-> "wx", delete |-> "r+"]

\* fs_open without the exclusive test of flag "wx"
fs_open_truncating(file, flag) ==
    CASE flag = "r"  -> [err |-> IF file.st = "none" THEN "ENOENT" ELSE "", file |-> file]
      [] flag = "r+" -> [err |-> IF file.st = "none" THEN "ENOENT" ELSE "", file |-> file]
      [] flag = "w"  -> [err |-> "", file |-> EmptyFile]
      [] flag = "wx" -> [err |-> "", file |-> EmptyFile]

\* open(path, flag): the error code ("" for none) and the file afterwards
fs_open(file, flag) ==
    CASE flag = "r"  -> [err |-> IF file.st = "none" THEN "ENOENT" ELSE "", file |-> file]
      [] flag = "r+" -> [err |-> IF file.st = "none" THEN "ENOENT" ELSE "", file |-> file]
      [] flag = "w"  -> [err |-> "", file |-> EmptyFile]
      [] flag = "wx" -> IF file.st = "none"
                        THEN [err |-> "", file |-> EmptyFile]
                        ELSE [err |-> "EEXIST", file |-> file]

\* fs_unlink without the error for a missing file
fs_unlink_silent(file) == [err |-> "", file |-> NoFile]

\* unlink(path): the error code ("" for none) and the file afterwards
fs_unlink(file) ==
    IF file.st = "none"
    THEN [err |-> "ENOENT", file |-> file]
    ELSE [err |-> "", file |-> NoFile]

\* write(fd, data) from offset 0 and close(fd).  A handle whose file was
\* unlinked meanwhile (orphan) writes to no path.  Text that is longer than
\* the data, written through another handle since the open, keeps its tail.
fs_write(file, data, orphan) ==
    IF orphan THEN file
    ELSE IF file.st \in {"json", "garbled"} /\ stringify_length(file.json) > stringify_length(data)
         THEN GarbledFile(file.json)
         ELSE JsonFile(data)

(***************************************************************************)
(* Calls.  A call slot holds one call of the adapter: its arguments, the   *)
(* request it waits for (pc), the record it parsed (json) and its result.  *)
(*   pc:     idle | readFile | writeFile | createFile | writing | unlink   *)
(*           | done                                                        *)
(*   result: none | true | false | null | json | value | Error            *)
(*           | SyntaxError | EACCES (the error of a failed request)        *)
(* pc and result are the state of the promise of the operation.  A call    *)
(* with a timeout has the promise of create_timeout_promise around it:     *)
(*   timeout  the timeout argument                                         *)
(*   pending  the variable pending of create_timeout_promise               *)
(*   timer    off | armed | cleared | fired                                *)
(*   outer    what the call gave its caller: none, the result or error of  *)
(*            the operation, TimeoutError, or Error when                   *)
(*            create_timeout_promise threw                                 *)
(***************************************************************************)
IdleCall ==
    [op |-> "none", subject |-> "", key |-> Undefined, value |-> Undefined,
     pc |-> "idle", json |-> EmptyJson, result |-> "none", orphan |-> FALSE,
     timeout |-> Undefined, pending |-> FALSE, timer |-> "off", outer |-> "none"]

InFlight(call) == call.pc \notin {"idle", "done"}

\* the operation a call of filesystem_adapter runs
operation(op, key, value) ==
    CASE op = "CREATE" -> "operation_fs_create"
      [] op = "READ"   -> IF ~Truthy(key) THEN "operation_fs_read_subject"
                          ELSE IF key = "@type" THEN "operation_fs_read_type"
                          ELSE "operation_fs_read"
      [] op = "UPDATE" -> IF key = "@type" THEN "operation_fs_update_type"
                          ELSE IF is_semantic_id(key) /\ is_semantic_id(value)
                          THEN "operation_fs_update_predicate"
                          ELSE "operation_fs_update"
      [] op = "DELETE" -> IF Truthy(key) \/ Truthy(value)
                          THEN "operation_fs_delete_predicate"
                          ELSE "operation_fs_delete"
      [] op = "LIST"   -> "operation_fs_list"

Operation(call) == operation(call.op, call.key, call.value)

\* typeArr of operation_fs_update_type, before rdfs:Resource is pushed
given_types(type) == IF IsArray(type) THEN Elems(type) ELSE <<type>>

\* the assert(...) lines at the head of each operation
asserts(fn, subject, key, value) ==
    CASE fn = "operation_fs_create"           -> is_semantic_id(subject)
      [] fn = "operation_fs_read_subject"     -> is_semantic_id(subject)
      [] fn = "operation_fs_read_type"        -> is_semantic_id(subject)
      [] fn = "operation_fs_read"             -> is_semantic_id(subject) /\ is_nonempty_key(key)
      [] fn = "operation_fs_update_predicate" ->
            is_semantic_id(subject) /\ is_semantic_id(key) /\ is_semantic_id(value)
      [] fn = "operation_fs_update_type"      ->
            /\ is_semantic_id(subject)
            /\ \A i \in 1..Len(given_types(value)) : is_semantic_id(given_types(value)[i])
      [] fn = "operation_fs_update"           ->
            is_semantic_id(subject) /\ is_nonempty_key(key) /\ is_primitive_value(value)
      [] fn = "operation_fs_delete_predicate" ->
            is_semantic_id(subject) /\ is_semantic_id(key) /\ is_semantic_id(value)
      [] fn = "operation_fs_delete"           -> is_semantic_id(subject)
      [] fn = "operation_fs_list"             -> is_semantic_id(subject) /\ is_semantic_id(key)

\* the first filesystem request of an operation
first_request(fn) ==
    CASE fn = "operation_fs_create" -> "createFile"
      [] fn = "operation_fs_delete" -> "unlink"
      [] OTHER                      -> "readFile"

\* the objects listed under a predicate, after `if (!Array.isArray(..)) json[predicate] = []`
listed(json, predicate) == IF json_isArray(json, predicate) THEN json[predicate].items ELSE <<>>

\* typeArr without the push of rdfs:Resource
type_array_as_given(type) == given_types(type)

\* typeArr of operation_fs_update_type
type_array(type) ==
    IF includes(given_types(type), RdfsResource)
    THEN given_types(type)
    ELSE Append(given_types(type), RdfsResource)

\* needs_write without the `includes` test of operation_fs_update_predicate
needs_write_unchecked(fn, json, key, value) ==
    CASE fn = "operation_fs_update"           -> TRUE
      [] fn = "operation_fs_update_type"      -> TRUE
      [] fn = "operation_fs_update_predicate" -> TRUE
      [] fn = "operation_fs_delete_predicate" ->
            json_isArray(json, key) /\ indexOf(json[key].items, value) >= 0
      [] OTHER                                -> FALSE

\* whether the operation, having parsed json, goes on to writeFile
needs_write(fn, json, key, value) ==
    CASE fn = "operation_fs_update"           -> TRUE
      [] fn = "operation_fs_update_type"      -> TRUE
      [] fn = "operation_fs_update_predicate" -> ~includes(listed(json, key), value)
      [] fn = "operation_fs_delete_predicate" ->
            json_isArray(json, key) /\ indexOf(json[key].items, value) >= 0
      [] OTHER                                -> FALSE

\* without_object lacking the `delete json[predicate]` for the last object
without_object_spliced(json, predicate, object) ==
    json_set(json, predicate,
             Array(splice1(json[predicate].items, indexOf(json[predicate].items, object))))

\* the record of operation_fs_delete_predicate when object is listed under
\* predicate: the list without it, or no list when it was the last object
without_object(json, predicate, object) ==
    IF Len(json[predicate].items) > 1
    THEN json_set(json, predicate,
                  Array(splice1(json[predicate].items, indexOf(json[predicate].items, object))))
    ELSE json_delete(json, predicate)

\* the record the operation hands to writeFile
write_json(fn, json, subject, key, value) ==
    CASE fn = "operation_fs_create"           -> initial_json(subject)
      [] fn = "operation_fs_update"           -> json_set(json, key, json_value(Value(value)))
      [] fn = "operation_fs_update_type"      -> json_set(json, "@type", Array(type_array(value)))
      [] fn = "operation_fs_update_predicate" ->
            json_set(json, key, Array(Append(listed(json, key), value)))
      [] fn = "operation_fs_delete_predicate" -> without_object(json, key, value)
      [] OTHER                                -> json

\* what an operation returns when it has parsed json and writes nothing
read_result(fn, json, key) ==
    CASE fn = "operation_fs_read_subject" -> "json"
      [] fn = "operation_fs_read_type"    -> "value"
      [] fn = "operation_fs_read"         -> IF key \in DOMAIN json THEN "value" ELSE "null"
      [] fn = "operation_fs_list"         -> IF json_isArray(json, key) THEN "value" ELSE "null"
      [] OTHER                            -> "true"

\* not_found_result with the ENOENT test of operation_fs_read_subject left out
not_found_rethrown(fn) ==
    IF fn \in {"operation_fs_read_subject", "operation_fs_read_type",
               "operation_fs_read", "operation_fs_list"}
    THEN "Error" ELSE "false"

\* the catch blocks: what an operation returns on the error code ENOENT
not_found_result(fn) ==
    IF fn \in {"operation_fs_read_subject", "operation_fs_read_type",
               "operation_fs_read", "operation_fs_list"}
    THEN "null" ELSE "false"

\* the catch blocks: the error code the operation answers with a value, and
\* what it does with the error of a failed request (return, or throw it on)
caught_code(fn) ==
    IF fn = "operation_fs_create" THEN Fs_errCodes.do_exist ELSE Fs_errCodes.not_found

catch_block(fn, code) ==
    IF code # caught_code(fn) THEN code
    ELSE IF fn = "operation_fs_create" THEN "false"
    ELSE not_found_result(fn)

\* the value a finished READ or LIST call resolved to
returned_value(call) ==
    IF call.result # "value" THEN Scalar(Null)
    ELSE IF Operation(call) = "operation_fs_read_type" THEN call.json["@type"]
    ELSE call.json[call.key]

(***************************************************************************)
(* State.                                                                  *)
(*   files      the directory, by subject                                  *)
(*   calls      the call slots                                             *)
(*   created    history: created[s] is set when a CREATE of s creates the  *)
(*              file and cleared when a DELETE of s unlinks it             *)
(*   roundtrip  history of the sequential specifications.  In Spec: the     *)
(*              record of a subject before a reference was added to it,    *)
(*              while the next call removes that reference again.  In      *)
(*              SpecShapes: the UPDATE that returned true, while the next  *)
(*              call reads its key                                         *)
(***************************************************************************)
Max(a, b) == IF a > b THEN a ELSE b

Slots == 1..Max(Max(Max(MaxCalls, MaxBurst), Max(MaxCreate, MaxTimed)), MaxDelete + 1)

NoRoundtrip ==
    [stage |-> 0, subject |-> "", key |-> Undefined, value |-> Undefined, before |-> EmptyJson]

Init ==
    /\ files = [s \in Subjects |-> NoFile]
    /\ calls = [c \in Slots |-> IdleCall]
    /\ created = [s \in Subjects |-> FALSE]
    /\ roundtrip = NoRoundtrip

Input(op, subject, key, value) == [op |-> op, subject |-> subject, key |-> key, value |-> value]

\* then_callback without the test of pending
then_callback_unguarded(call) ==
    [call EXCEPT !.pending = FALSE, !.timer = "cleared", !.outer = call.result]

\* origPromise.then(..).catch(..) of create_timeout_promise: the callbacks run
\* when the operation has settled, in the same turn
then_callback(call) ==
    IF call.pending
    THEN [call EXCEPT !.pending = FALSE, !.timer = "cleared", !.outer = call.result]
    ELSE call

\* the operation settles: its promise resolves or rejects, and the callbacks
\* registered on it run
Settle(call, result) == then_callback([call EXCEPT !.pc = "done", !.result = result])

(***************************************************************************)
(* filesystem_adapter.CREATE / READ / UPDATE / DELETE / LIST without       *)
(* timeout: the synchronous head of the operation.  A failed assert        *)
(* rejects the call before any request; otherwise the first request is     *)
(* handed to fs.                                                           *)
(***************************************************************************)
started(in) ==
    LET fn == operation(in.op, in.key, in.value)
        call == [IdleCall EXCEPT !.op = in.op, !.subject = in.subject, !.key = in.key,
                                 !.value = in.value, !.pc = first_request(fn)]
    IN  IF asserts(fn, in.subject, in.key, in.value)
        THEN call
        ELSE Settle(call, "Error")

Invoke(c, in) ==
    /\ calls' = [calls EXCEPT ![c] = started(in)]
    /\ UNCHANGED <<files, created>>

(***************************************************************************)
(* create_timeout_promise(origPromise, timeoutDelay), called with the      *)
(* promise of the operation that was started: a timeoutDelay that is no    *)
(* number greater than 0 makes it throw; otherwise the timer is set and    *)
(* the callbacks are registered on the promise, which run at once when the *)
(* operation was rejected by an assert.                                    *)
(***************************************************************************)
create_timeout_promise(call, timeoutDelay) ==
    IF ~(TypeOf(timeoutDelay) = "number" /\ greater_than_0(timeoutDelay))
    THEN [call EXCEPT !.timeout = timeoutDelay, !.outer = "Error"]
    ELSE LET wrapped == [call EXCEPT !.timeout = timeoutDelay, !.pending = TRUE,
                                     !.timer = "armed"]
         IN  IF wrapped.pc = "done" THEN then_callback(wrapped) ELSE wrapped

(***************************************************************************)
(* filesystem_adapter.CREATE / READ / UPDATE / DELETE / LIST with the      *)
(* timeout argument: `!timeout ? operation(..)                             *)
(* : create_timeout_promise(operation(..), timeout)`.                      *)
(***************************************************************************)
InvokeTimed(c, in, timeout) ==
    /\ calls' = [calls EXCEPT ![c] =
                    IF ~Truthy(timeout)
                    THEN started(in)
                    ELSE create_timeout_promise(started(in), timeout)]
    /\ UNCHANGED <<files, created>>

\* timer_callback that ends the operation as well
timer_callback_cancelling(call) ==
    IF call.pending
    THEN [call EXCEPT !.pending = FALSE, !.timer = "fired", !.outer = "TimeoutError",
                      !.pc = "done"]
    ELSE [call EXCEPT !.timer = "fired"]

\* timer_callback without the reject
timer_callback_silent(call) == [call EXCEPT !.timer = "fired"]

\* the callback of setTimeout in create_timeout_promise
timer_callback(call) ==
    IF call.pending
    THEN [call EXCEPT !.pending = FALSE, !.timer = "fired", !.outer = "TimeoutError"]
    ELSE [call EXCEPT !.timer = "fired"]

(***************************************************************************)
(* The timer of a call fires: 1e3 * timeoutDelay milliseconds have passed  *)
(* and clearTimeout has not been called.                                   *)
(***************************************************************************)
TimerFires(c) ==
    /\ calls[c].timer = "armed"
    /\ calls' = [calls EXCEPT ![c] = timer_callback(calls[c])]
    /\ UNCHANGED <<files, created, roundtrip>>

(***************************************************************************)
(* The callback of readFile(path, {flag: "r"}): ENOENT goes to the catch   *)
(* block, a text that is no JSON makes JSON.parse throw, and a record      *)
(* is returned, or changed and handed to writeFile.                        *)
(***************************************************************************)
FsReadFile(c) ==
    LET call == calls[c]
        fn == Operation(call)
        file == files[get_file_path(call.subject)]
        opened == fs_open(file, Fs_sysFlags.read)
    IN  /\ call.pc = "readFile"
        /\ calls' = [calls EXCEPT ![c] =
                        IF opened.err = Fs_errCodes.not_found
                        THEN Settle(call, not_found_result(fn))
                        ELSE IF file.st # "json"
                        THEN Settle(call, "SyntaxError")
                        ELSE IF needs_write(fn, file.json, call.key, call.value)
                        THEN [call EXCEPT !.pc = "writeFile", !.json = file.json]
                        ELSE Settle([call EXCEPT !.json = file.json],
                                    read_result(fn, file.json, call.key))]
        /\ UNCHANGED <<files, created, roundtrip>>

(***************************************************************************)
(* writeFile(path, data, {flag: "w"}), first half: the file is opened,     *)
(* which creates or truncates it.                                          *)
(***************************************************************************)
FsOpenWrite(c) ==
    LET call == calls[c]
        path == get_file_path(call.subject)
        opened == fs_open(files[path], Fs_sysFlags.write)
    IN  /\ call.pc = "writeFile"
        /\ IF opened.err = ""
           THEN /\ files' = [files EXCEPT ![path] = opened.file]
                /\ calls' = [calls EXCEPT ![c].pc = "writing"]
           ELSE /\ files' = files
                /\ calls' = [calls EXCEPT ![c] =
                                Settle(call, IF opened.err = Fs_errCodes.not_found
                                             THEN "false" ELSE "Error")]
        /\ UNCHANGED <<created, roundtrip>>

(***************************************************************************)
(* writeFile(path, data, {flag: "wx"}) of operation_fs_create, first half: *)
(* the exclusive open creates the file or fails with EEXIST.               *)
(***************************************************************************)
FsOpenCreate(c) ==
    LET call == calls[c]
        path == get_file_path(call.subject)
        opened == fs_open(files[path], Fs_sysFlags.create)
    IN  /\ call.pc = "createFile"
        /\ IF opened.err = ""
           THEN /\ files' = [files EXCEPT ![path] = opened.file]
                /\ created' = [created EXCEPT ![path] = TRUE]
                /\ calls' = [calls EXCEPT ![c].pc = "writing"]
           ELSE /\ UNCHANGED <<files, created>>
                /\ calls' = [calls EXCEPT ![c] =
                                Settle(call, IF opened.err = Fs_errCodes.do_exist
                                             THEN "false" ELSE "Error")]
        /\ UNCHANGED roundtrip

(***************************************************************************)
(* writeFile, second half: the data is written, the file closed and the    *)
(* callback resolves the operation with true.                              *)
(***************************************************************************)
FsWriteClose(c) ==
    LET call == calls[c]
        path == get_file_path(call.subject)
        data == write_json(Operation(call), call.json, call.subject, call.key, call.value)
    IN  /\ call.pc = "writing"
        /\ files' = [files EXCEPT ![path] = fs_write(files[path], data, call.orphan)]
        /\ calls' = [calls EXCEPT ![c] = Settle(call, "true")]
        /\ UNCHANGED <<created, roundtrip>>

(***************************************************************************)
(* unlink(path) of operation_fs_delete.  Handles that are open on the      *)
(* file keep the unlinked file, not the path.                              *)
(***************************************************************************)
FsUnlink(c) ==
    LET call == calls[c]
        path == get_file_path(call.subject)
        unlinked == fs_unlink(files[path])
    IN  /\ call.pc = "unlink"
        /\ IF unlinked.err = Fs_errCodes.not_found
           THEN /\ calls' = [calls EXCEPT ![c] = Settle(call, "false")]
                /\ UNCHANGED <<files, created>>
           ELSE /\ files' = [files EXCEPT ![path] = unlinked.file]
                /\ created' = [created EXCEPT ![path] = FALSE]
                /\ calls' = [d \in Slots |->
                                IF d = c THEN Settle(call, "true")
                                ELSE IF calls[d].pc = "writing" /\ calls[d].subject = call.subject
                                THEN [calls[d] EXCEPT !.orphan = TRUE]
                                ELSE calls[d]]
        /\ UNCHANGED roundtrip

(***************************************************************************)
(* A request (readFile, writeFile, unlink) fails with a system error other *)
(* than ENOENT and EEXIST, here EACCES, before it touched the file:        *)
(* request_fs rejects, and the catch block of the operation throws the     *)
(* error on, which rejects the call.                                       *)
(***************************************************************************)
FsError(c) ==
    LET call == calls[c]
    IN  /\ call.pc \in {"readFile", "writeFile", "createFile", "unlink"}
        /\ calls' = [calls EXCEPT ![c] =
                        Settle(call, catch_block(Operation(call), Fs_errCodes.access_denied))]
        /\ UNCHANGED <<files, created, roundtrip>>

(***************************************************************************)
(* Spec: one call after the other (each awaited), over all shapes of       *)
(* arguments, the malformed ones included.                                 *)
(***************************************************************************)
SeqSubjects == {"ex:s", "no id"}
SeqKeys == {"", " ", "@type", "label", "ex:p"}
SeqValues == {"", "ex:a", "ex:b", "hi w", Obj}

SeqInputs ==
    {Input("CREATE", s, Undefined, Undefined) : s \in SeqSubjects}
    \cup {Input(op, s, k, Undefined) :
            op \in {"READ", "LIST"}, s \in SeqSubjects, k \in SeqKeys \cup {Undefined}}
    \cup {Input("UPDATE", s, k, v) : s \in SeqSubjects, k \in SeqKeys, v \in SeqValues \cup {Undefined}}
    \cup {Input("DELETE", s, k, v) :
            s \in SeqSubjects, k \in SeqKeys \cup {Undefined}, v \in SeqValues \cup {Undefined}}

\* whether the call adds a reference that the record of its subject does not list
AddsReference(in) ==
    /\ in.op = "UPDATE"
    /\ operation(in.op, in.key, in.value) = "operation_fs_update_predicate"
    /\ asserts("operation_fs_update_predicate", in.subject, in.key, in.value)
    /\ files[get_file_path(in.subject)].st = "json"
    /\ ~includes(listed(files[get_file_path(in.subject)].json, in.key), in.value)

Call ==
    /\ ~InFlight(calls[1])
    /\ \E in \in SeqInputs :
        /\ Invoke(1, in)
        /\ roundtrip' =
            IF AddsReference(in)
            THEN [stage |-> 1, subject |-> in.subject, key |-> in.key, value |-> in.value,
                  before |-> files[get_file_path(in.subject)].json]
            ELSE IF /\ roundtrip.stage = 1
                    /\ in = Input("DELETE", roundtrip.subject, roundtrip.key, roundtrip.value)
            THEN [roundtrip EXCEPT !.stage = 2]
            ELSE NoRoundtrip

Next ==
    \/ Call
    \/ FsReadFile(1)
    \/ FsOpenWrite(1)
    \/ FsOpenCreate(1)
    \/ FsWriteClose(1)
    \/ FsUnlink(1)

Spec == Init /\ [][Next]_vars

(***************************************************************************)
(* SpecRace: any mix of well-formed calls on one subject, up to MaxCalls   *)
(* of them in flight together.  A call takes the lowest free slot.         *)
(***************************************************************************)
RaceInputs ==
    {Input("CREATE", "ex:s", Undefined, Undefined),
     Input("DELETE", "ex:s", Undefined, Undefined),
     Input("UPDATE", "ex:s", "ex:p", "ex:a"),
     Input("UPDATE", "ex:s", "ex:p", "ex:b"),
     Input("UPDATE", "ex:s", "label", "hi w"),
     Input("DELETE", "ex:s", "ex:p", "ex:a"),
     Input("READ", "ex:s", Undefined, Undefined),
     Input("READ", "ex:s", "label", Undefined),
     Input("LIST", "ex:s", "ex:p", Undefined)}

CallRace(c) ==
    /\ c \in 1..MaxCalls
    /\ ~InFlight(calls[c])
    /\ \A d \in 1..(c - 1) : InFlight(calls[d])
    /\ \E in \in RaceInputs : Invoke(c, in)
    /\ UNCHANGED roundtrip

NextRace ==
    \E c \in 1..MaxCalls :
        \/ CallRace(c)
        \/ FsReadFile(c)
        \/ FsOpenWrite(c)
        \/ FsOpenCreate(c)
        \/ FsWriteClose(c)
        \/ FsUnlink(c)

SpecRace == Init /\ [][NextRace]_vars

(***************************************************************************)
(* SpecBurst: a burst of up to MaxBurst calls on an existing subject,      *)
(* issued without awaiting each other: mutations (UPDATE, DELETE of a      *)
(* reference) and reads.  Each slot holds one call of the burst and keeps  *)
(* it when it has settled.  The subject starts with a record that CREATE   *)
(* and UPDATE calls leave behind.                                          *)
(***************************************************************************)
BurstRecords ==
    {initial_json("ex:s"),
     json_set(initial_json("ex:s"), "ex:p", Array(<<"ex:a">>))}

InitBurst ==
    /\ \E json \in BurstRecords :
            files = [s \in Subjects |-> IF s = "ex:s" THEN JsonFile(json) ELSE NoFile]
    /\ calls = [c \in Slots |-> IdleCall]
    /\ created = [s \in Subjects |-> s = "ex:s"]
    /\ roundtrip = NoRoundtrip

BurstInputs ==
    {Input("UPDATE", "ex:s", "ex:p", "ex:a"),
     Input("UPDATE", "ex:s", "ex:p", "ex:b"),
     Input("UPDATE", "ex:s", "label", "hi w"),
     Input("DELETE", "ex:s", "ex:p", "ex:a"),
     Input("READ", "ex:s", Undefined, Undefined),
     Input("LIST", "ex:s", "ex:p", Undefined)}

CallBurst(c) ==
    /\ c \in 1..MaxBurst
    /\ calls[c].pc = "idle"
    /\ \A d \in 1..(c - 1) : calls[d].pc # "idle"
    /\ \E in \in BurstInputs : Invoke(c, in)
    /\ UNCHANGED roundtrip

NextBurst ==
    \E c \in 1..MaxBurst :
        \/ CallBurst(c)
        \/ FsReadFile(c)
        \/ FsOpenWrite(c)
        \/ FsWriteClose(c)

SpecBurst == InitBurst /\ [][NextBurst]_vars

(***************************************************************************)
(* SpecFault: one well-formed call after the other on a filesystem whose   *)
(* requests can fail.                                                      *)
(***************************************************************************)
CallFault ==
    /\ ~InFlight(calls[1])
    /\ \E in \in RaceInputs : Invoke(1, in)
    /\ UNCHANGED roundtrip

NextFault ==
    \/ CallFault
    \/ FsReadFile(1)
    \/ FsOpenWrite(1)
    \/ FsOpenCreate(1)
    \/ FsWriteClose(1)
    \/ FsUnlink(1)
    \/ FsError(1)

SpecFault == Init /\ [][NextFault]_vars

(***************************************************************************)
(* SpecCreate: up to MaxCreate CREATE calls issued together, on subjects   *)
(* that have no file or have a record already.  Each slot holds one call   *)
(* and keeps it when it has settled.                                       *)
(***************************************************************************)
\* the record of a subject that was created and given a label before
labelled_json(subject) == json_set(initial_json(subject), "label", Scalar("hi w"))

InitCreate ==
    /\ files \in [Subjects -> {NoFile} \cup {JsonFile(labelled_json(s)) : s \in Subjects}]
    /\ \A s \in Subjects : files[s].st = "json" => files[s].json["@id"] = Scalar(s)
    /\ calls = [c \in Slots |-> IdleCall]
    /\ created = [s \in Subjects |-> files[s].st # "none"]
    /\ roundtrip = NoRoundtrip

CallCreate(c) ==
    /\ c \in 1..MaxCreate
    /\ calls[c].pc = "idle"
    /\ \A d \in 1..(c - 1) : calls[d].pc # "idle"
    /\ \E s \in Subjects : Invoke(c, Input("CREATE", s, Undefined, Undefined))
    /\ UNCHANGED roundtrip

NextCreate ==
    \E c \in 1..MaxCreate :
        \/ CallCreate(c)
        \/ FsOpenCreate(c)
        \/ FsWriteClose(c)

SpecCreate == InitCreate /\ [][NextCreate]_vars

(***************************************************************************)
(* SpecShapes: one call after the other on an existing subject, with the   *)
(* shapes of key and value that UPDATE dispatches on: the key "@type",     *)
(* keys that are semantic ids and keys that are not, values that are       *)
(* semantic ids, strings, numbers and arrays.  When a READ or LIST of a    *)
(* key follows a successful UPDATE of that key, roundtrip holds the        *)
(* UPDATE: its key, its value and the record it parsed.                    *)
(***************************************************************************)
ShapeKeys == {"@type", "@id", "ex:p"}
ShapeValues == {"ex:a", "hi w", NaN, ArrIds}

ShapeInputs ==
    {Input("UPDATE", "ex:s", k, v) : k \in ShapeKeys, v \in ShapeValues}
    \cup {Input("READ", "ex:s", k, Undefined) : k \in ShapeKeys}
    \cup {Input("LIST", "ex:s", "ex:p", Undefined)}

\* the call reads the key that the call before it updated
ReadsUpdated(in, last) ==
    /\ last.op = "UPDATE" /\ last.pc = "done" /\ last.result = "true"
    /\ in.subject = last.subject /\ in.key = last.key
    /\ in.op = IF Operation(last) = "operation_fs_update_predicate" THEN "LIST" ELSE "READ"

CallShapes ==
    /\ ~InFlight(calls[1])
    /\ \E in \in ShapeInputs :
        /\ operation(in.op, in.key, in.value) = "operation_fs_update_predicate"
            => Len(listed(files[get_file_path(in.subject)].json, in.key)) < MaxListed
        /\ Invoke(1, in)
        /\ roundtrip' =
            IF ReadsUpdated(in, calls[1])
            THEN [stage |-> 1, subject |-> in.subject, key |-> calls[1].key,
                  value |-> calls[1].value, before |-> calls[1].json]
            ELSE NoRoundtrip

NextShapes ==
    \/ CallShapes
    \/ FsReadFile(1)
    \/ FsOpenWrite(1)
    \/ FsWriteClose(1)

SpecShapes == InitBurst /\ [][NextShapes]_vars

(***************************************************************************)
(* SpecTypes: up to MaxBurst calls issued together on a subject that has   *)
(* no file or has a record: CREATE, DELETE, UPDATE of "@type" with one     *)
(* type, with an array of types and with a value that is no type, UPDATE   *)
(* of a reference, and READ of "@type".  Each slot holds one call.         *)
(***************************************************************************)
InitTypes == Init \/ InitBurst

TypeInputs ==
    {Input("CREATE", "ex:s", Undefined, Undefined),
     Input("DELETE", "ex:s", Undefined, Undefined),
     Input("UPDATE", "ex:s", "@type", "ex:a"),
     Input("UPDATE", "ex:s", "@type", ArrIds),
     Input("UPDATE", "ex:s", "@type", "hi w"),
     Input("UPDATE", "ex:s", "ex:p", "ex:b"),
     Input("READ", "ex:s", "@type", Undefined)}

CallTypes(c) ==
    /\ c \in 1..MaxBurst
    /\ calls[c].pc = "idle"
    /\ \A d \in 1..(c - 1) : calls[d].pc # "idle"
    /\ \E in \in TypeInputs : Invoke(c, in)
    /\ UNCHANGED roundtrip

NextTypes ==
    \E c \in 1..MaxBurst :
        \/ CallTypes(c)
        \/ FsReadFile(c)
        \/ FsOpenWrite(c)
        \/ FsOpenCreate(c)
        \/ FsWriteClose(c)
        \/ FsUnlink(c)

SpecTypes == InitTypes /\ [][NextTypes]_vars

(***************************************************************************)
(* SpecRefs: up to MaxBurst calls issued together that create a subject,   *)
(* add references to it, delete references from it and list them, on a     *)
(* subject that has no file or has a record.  Each slot holds one call.    *)
(***************************************************************************)
RefInputs ==
    {Input("CREATE", "ex:s", Undefined, Undefined),
     Input("UPDATE", "ex:s", "ex:p", "ex:a"),
     Input("UPDATE", "ex:s", "ex:p", "ex:b"),
     Input("DELETE", "ex:s", "ex:p", "ex:a"),
     Input("DELETE", "ex:s", "ex:p", "ex:b"),
     Input("LIST", "ex:s", "ex:p", Undefined)}

CallRefs(c) ==
    /\ c \in 1..MaxBurst
    /\ calls[c].pc = "idle"
    /\ \A d \in 1..(c - 1) : calls[d].pc # "idle"
    /\ \E in \in RefInputs : Invoke(c, in)
    /\ UNCHANGED roundtrip

NextRefs ==
    \E c \in 1..MaxBurst :
        \/ CallRefs(c)
        \/ FsReadFile(c)
        \/ FsOpenWrite(c)
        \/ FsOpenCreate(c)
        \/ FsWriteClose(c)

SpecRefs == InitTypes /\ [][NextRefs]_vars

(***************************************************************************)
(* SpecTimeout: up to MaxTimed calls issued together, with and without a   *)
(* timeout argument, on a filesystem whose requests can fail.  Each slot   *)
(* holds one call.                                                         *)
(* SpecTimeoutFair: calls without timeout and calls with a positive        *)
(* timeout, with what a timer promises: once set and not cleared, it       *)
(* fires.  Nothing is assumed of the filesystem, which may never call      *)
(* back.                                                                   *)
(***************************************************************************)
Timeouts == {Undefined, Num5, NumNeg, "hi w"}

TimedInputs ==
    {Input("CREATE", "ex:s", Undefined, Undefined),
     Input("UPDATE", "ex:s", "ex:p", "ex:b"),
     Input("DELETE", "ex:s", Undefined, Undefined)}

CallTimed(c) ==
    /\ c \in 1..MaxTimed
    /\ calls[c].pc = "idle"
    /\ \A d \in 1..(c - 1) : calls[d].pc # "idle"
    /\ \E in \in TimedInputs, timeout \in Timeouts : InvokeTimed(c, in, timeout)
    /\ UNCHANGED roundtrip

NextTimeout ==
    \E c \in 1..MaxTimed :
        \/ CallTimed(c)
        \/ FsReadFile(c)
        \/ FsOpenWrite(c)
        \/ FsOpenCreate(c)
        \/ FsWriteClose(c)
        \/ FsUnlink(c)
        \/ FsError(c)
        \/ TimerFires(c)

SpecTimeout == InitTypes /\ [][NextTimeout]_vars

CallFair(c) ==
    /\ c \in 1..MaxTimed
    /\ calls[c].pc = "idle"
    /\ \A d \in 1..(c - 1) : calls[d].pc # "idle"
    /\ \E in \in TimedInputs, timeout \in {Undefined, Num5} : InvokeTimed(c, in, timeout)
    /\ UNCHANGED roundtrip

NextFair ==
    \E c \in 1..MaxTimed :
        \/ CallFair(c)
        \/ FsReadFile(c)
        \/ FsOpenWrite(c)
        \/ FsOpenCreate(c)
        \/ FsWriteClose(c)
        \/ FsUnlink(c)
        \/ TimerFires(c)

SpecTimeoutFair ==
    InitTypes /\ [][NextFair]_vars /\ \A c \in 1..MaxTimed : WF_vars(TimerFires(c))

(***************************************************************************)
(* SpecLocal: up to MaxBurst calls issued together on two subjects, each   *)
(* of which has no file or has a record: CREATE, UPDATE, DELETE, READ and  *)
(* LIST.  Each slot holds one call.                                        *)
(***************************************************************************)
LocalInputs ==
    {Input("CREATE", s, Undefined, Undefined) : s \in Subjects}
    \cup {Input("DELETE", s, Undefined, Undefined) : s \in Subjects}
    \cup {Input("UPDATE", "ex:s", "ex:p", "ex:a"),
          Input("UPDATE", "ex:t", "label", "ex:a"),
          Input("DELETE", "ex:t", "ex:p", "ex:a"),
          Input("READ", "ex:s", Undefined, Undefined),
          Input("LIST", "ex:t", "ex:p", Undefined)}

CallLocal(c) ==
    /\ c \in 1..MaxBurst
    /\ calls[c].pc = "idle"
    /\ \A d \in 1..(c - 1) : calls[d].pc # "idle"
    /\ \E in \in LocalInputs : Invoke(c, in)
    /\ UNCHANGED roundtrip

NextLocal ==
    \E c \in 1..MaxBurst :
        \/ CallLocal(c)
        \/ FsReadFile(c)
        \/ FsOpenWrite(c)
        \/ FsOpenCreate(c)
        \/ FsWriteClose(c)
        \/ FsUnlink(c)

SpecLocal == InitCreate /\ [][NextLocal]_vars

(***************************************************************************)
(* SpecDelete: up to MaxDelete DELETE calls of whole subjects issued       *)
(* together, on subjects that have no file or have a record, each in a     *)
(* slot of its own; and when they have settled, calls that follow one      *)
(* after the other in the slot behind them: READ, LIST, UPDATE and CREATE. *)
(***************************************************************************)
AfterSlot == MaxDelete + 1

CallDelete(c) ==
    /\ c \in 1..MaxDelete
    /\ calls[c].pc = "idle"
    /\ calls[AfterSlot].pc = "idle"
    /\ \A d \in 1..(c - 1) : calls[d].pc # "idle"
    /\ \E s \in Subjects : Invoke(c, Input("DELETE", s, Undefined, Undefined))
    /\ UNCHANGED roundtrip

AfterInputs ==
    {Input("READ", s, Undefined, Undefined) : s \in Subjects}
    \cup {Input("LIST", s, "ex:p", Undefined) : s \in Subjects}
    \cup {Input("UPDATE", s, "label", "ex:a") : s \in Subjects}
    \cup {Input("UPDATE", s, "ex:p", "ex:a") : s \in Subjects}
    \cup {Input("CREATE", s, Undefined, Undefined) : s \in Subjects}

CallAfter ==
    /\ \A c \in Slots : ~InFlight(calls[c])
    /\ calls[1].pc # "idle"
    /\ \E in \in AfterInputs : Invoke(AfterSlot, in)
    /\ UNCHANGED roundtrip

NextDelete ==
    \/ CallAfter
    \/ \E c \in 1..AfterSlot :
        \/ CallDelete(c)
        \/ FsReadFile(c)
        \/ FsOpenWrite(c)
        \/ FsOpenCreate(c)
        \/ FsWriteClose(c)
        \/ FsUnlink(c)

SpecDelete == InitCreate /\ [][NextDelete]_vars

(***************************************************************************)
(* Vocabulary of the properties.                                           *)
(***************************************************************************)
Quiescent == \A c \in Slots : ~InFlight(calls[c])

Issued == {c \in Slots : calls[c].pc # "idle"}

Mutations == {"operation_fs_update", "operation_fs_update_type",
              "operation_fs_update_predicate", "operation_fs_delete_predicate"}

Reads == {"operation_fs_read_subject", "operation_fs_read_type",
          "operation_fs_read", "operation_fs_list"}

\* the call has handed a record to writeFile
Wrote(call) ==
    /\ Operation(call) \in Mutations
    /\ \/ call.pc \in {"writeFile", "writing"}
       \/ /\ call.pc = "done"
          /\ call.result = "true"
          /\ needs_write(Operation(call), call.json, call.key, call.value)

\* the record holds what the UPDATE call wrote
Holds(json, call) ==
    IF Operation(call) = "operation_fs_update_predicate"
    THEN includes(listed(json, call.key), call.value)
    ELSE call.key \in DOMAIN json /\ json[call.key] = Scalar(call.value)

\* two UPDATE calls that do not overwrite each other: different keys, or
\* objects under the same predicate
Compatible(a, b) ==
    \/ a.key # b.key
    \/ /\ Operation(a) = "operation_fs_update_predicate"
       /\ Operation(b) = "operation_fs_update_predicate"

\* the call was made with a timeout that create_timeout_promise accepts
Timed(call) == TypeOf(call.timeout) = "number" /\ greater_than_0(call.timeout)

\* the call was made with a timeout that create_timeout_promise rejects
Mistimed(call) == Truthy(call.timeout) /\ ~Timed(call)

\* some request of call c is with the filesystem, whose callback can come
FsStep(c) ==
    \/ FsReadFile(c)
    \/ FsOpenWrite(c)
    \/ FsOpenCreate(c)
    \/ FsWriteClose(c)
    \/ FsUnlink(c)
    \/ FsError(c)

\* the call has created, truncated, written or removed the file of its subject
ChangedFile(call) ==
    \/ call.pc = "writing"
    \/ /\ call.pc = "done"
       /\ call.result = "true"
       /\ \/ Operation(call) \in {"operation_fs_create", "operation_fs_delete"}
          \/ needs_write(Operation(call), call.json, call.key, call.value)

\* this step is the callback of the readFile of call c
ReadStep(c) == calls[c].pc = "readFile" /\ calls'[c].pc # "readFile"

(***************************************************************************)
(* C1 (SpecBurst).  No acknowledged UPDATE is lost: when all calls of a    *)
(* burst of UPDATE calls on one subject (different keys, or different      *)
(* objects under one predicate) have settled and all returned true, the    *)
(* file holds every written key and object.                                *)
(***************************************************************************)
C1_NoAcknowledgedUpdateLost ==
    ( /\ Quiescent
      /\ \A c \in Issued : calls[c].op = "UPDATE" /\ calls[c].result = "true"
      /\ \A c, d \in Issued : c # d => Compatible(calls[c], calls[d]) )
    => \A c \in Issued :
          /\ files[get_file_path(calls[c].subject)].st = "json"
          /\ Holds(files[get_file_path(calls[c].subject)].json, calls[c])

(***************************************************************************)
(* C2 (SpecBurst).  At most one writer: at any instant at most one write   *)
(* to the file of a subject is open.                                       *)
(***************************************************************************)
C2_AtMostOneWriter ==
    \A s \in Subjects :
        Cardinality({c \in Slots : calls[c].pc = "writing" /\ calls[c].subject = s}) <= 1

(***************************************************************************)
(* C3 (SpecBurst).  Coalescing: the mutations of a burst cause one write   *)
(* to the file, not one write per mutation.                                *)
(***************************************************************************)
C3_OneWritePerBurst ==
    \A s \in Subjects :
        Cardinality({c \in Slots : calls[c].subject = s /\ Wrote(calls[c])}) <= 1

(***************************************************************************)
(* C4 (SpecBurst).  A READ or LIST that runs together with an UPDATE or a  *)
(* DELETE of a reference never fails on the file being half written: it    *)
(* parses a complete record.                                               *)
(***************************************************************************)
C4_ReaderSeesCompleteRecord ==
    \A c \in Slots :
        (calls[c].pc = "done" /\ Operation(calls[c]) \in Reads)
        => /\ calls[c].result \in {"json", "value", "null"}
           /\ calls[c].json # EmptyJson

(***************************************************************************)
(* C5 (SpecRace).  No implicit file: the file of a subject exists only if  *)
(* a CREATE of the subject created it and no DELETE of the subject has     *)
(* unlinked it since.                                                      *)
(***************************************************************************)
C5_NoImplicitFile ==
    \A s \in Subjects : files[s].st # "none" => created[s]

(***************************************************************************)
(* C6 (Spec).  Read leniency, write strictness: when the readFile of a     *)
(* READ or LIST finds no file the call resolves to null, when the readFile *)
(* of an UPDATE finds no file the call fails (false); either way the call  *)
(* has settled, so it writes nothing, and no file is created or changed.   *)
(***************************************************************************)
C6_ReadLenientWriteStrict ==
    [][\A c \in Slots :
        (ReadStep(c) /\ files[get_file_path(calls[c].subject)].st = "none")
        => /\ calls'[c].pc = "done"
           /\ calls[c].op \in {"READ", "LIST"} => calls'[c].result = "null"
           /\ calls[c].op = "UPDATE" => calls'[c].result = "false"
           /\ files' = files]_vars

C6_Witness ==
    \E c \in Slots :
        /\ calls[c].pc = "done"
        /\ calls[c].op = "UPDATE"
        /\ calls[c].result = "false"
        /\ files[get_file_path(calls[c].subject)].st = "none"

(***************************************************************************)
(* C7 (Spec).  Idempotence: an UPDATE(s, p, o) that finds o listed under   *)
(* p, and a DELETE(s, p, o) that finds o not listed under p, settle        *)
(* without a write and leave the file as it is.                            *)
(***************************************************************************)
C7_IdempotentAddDelete ==
    [][\A c \in Slots :
        LET file == files[get_file_path(calls[c].subject)]
            isListed == includes(listed(file.json, calls[c].key), calls[c].value)
        IN  ( /\ ReadStep(c)
              /\ file.st = "json"
              /\ \/ Operation(calls[c]) = "operation_fs_update_predicate" /\ isListed
                 \/ Operation(calls[c]) = "operation_fs_delete_predicate" /\ ~isListed )
            => /\ calls'[c].pc = "done"
               /\ files' = files]_vars

C7_Witness ==
    \E c \in Slots :
        /\ calls[c].pc = "done"
        /\ Operation(calls[c]) = "operation_fs_update_predicate"
        /\ calls[c].result = "true"
        /\ includes(listed(calls[c].json, calls[c].key), calls[c].value)
        /\ files[get_file_path(calls[c].subject)] = JsonFile(calls[c].json)

(***************************************************************************)
(* C8 (Spec).  The return value of adding or deleting a reference tells    *)
(* whether the record changed: true when the object was added or removed,  *)
(* false when it was listed already or was not listed.                     *)
(***************************************************************************)
C8_ReturnReportsChange ==
    \A c \in Slots :
        ( /\ calls[c].pc = "done"
          /\ Operation(calls[c]) \in {"operation_fs_update_predicate",
                                      "operation_fs_delete_predicate"}
          /\ calls[c].json # EmptyJson )
        => ( calls[c].result = "true"
             <=> needs_write(Operation(calls[c]), calls[c].json, calls[c].key, calls[c].value) )

(***************************************************************************)
(* C9 (Spec).  Round trip: after UPDATE(s, p, o) with o not listed under   *)
(* p, the objects under p are the previous ones plus o, and after the      *)
(* DELETE(s, p, o) that follows it the record of s is what it was before   *)
(* the UPDATE, whatever key p held.                                        *)
(***************************************************************************)
C9_AddDeleteRoundTrip ==
    LET file == files[get_file_path(roundtrip.subject)]
    IN  /\ (roundtrip.stage = 1 /\ calls[1].pc = "done")
           => /\ file.st = "json"
              /\ listed(file.json, roundtrip.key)
                    = Append(listed(roundtrip.before, roundtrip.key), roundtrip.value)
        /\ (roundtrip.stage = 2 /\ calls[1].pc = "done")
           => file = JsonFile(roundtrip.before)

(***************************************************************************)
(* C10 (Spec).  Validation at the boundary: a call whose subject is no     *)
(* semantic id, whose key is empty, whose value is neither primitive nor a *)
(* semantic id, or whose predicate or object is no semantic id is rejected *)
(* before any filesystem request.                                          *)
(***************************************************************************)
Malformed(call) ==
    \/ ~is_semantic_id(call.subject)
    \/ call.op \in {"READ", "UPDATE"} /\ call.key # Undefined /\ ~is_nonempty_key(call.key)
    \/ call.op = "UPDATE" /\ ~is_primitive_value(call.value) /\ ~is_semantic_id(call.value)
    \/ call.op = "LIST" /\ ~is_semantic_id(call.key)
    \/ /\ call.op = "DELETE"
       /\ call.key # Undefined \/ call.value # Undefined
       /\ ~is_semantic_id(call.key) \/ ~is_semantic_id(call.value)

C10_RejectedAtBoundary ==
    \A c \in Slots :
        (calls[c].pc # "idle" /\ Malformed(calls[c]))
        => calls[c].pc = "done" /\ calls[c].result = "Error"

(***************************************************************************)
(* C11 (SpecFault).  The error of a filesystem request that fails during   *)
(* a CREATE, an UPDATE or a DELETE never reaches the caller: no such call  *)
(* is rejected with the error of the request.                              *)
(***************************************************************************)
C11_NoIoErrorToCaller ==
    \A c \in Slots :
        (calls[c].pc = "done" /\ calls[c].op \in {"CREATE", "UPDATE", "DELETE"})
        => calls[c].result # Fs_errCodes.access_denied

C13_ReadSeesUpdate ==
    LET fn == operation("UPDATE", roundtrip.key, roundtrip.value)
        returned == returned_value(calls[1])
        given == given_types(roundtrip.value)
    IN  (roundtrip.stage = 1 /\ calls[1].pc = "done")
        => CASE fn = "operation_fs_update" -> returned = Value(roundtrip.value)
             [] fn = "operation_fs_update_predicate" ->
                    /\ calls[1].result = "value"
                    /\ returned.arr
                    /\ \E i \in 1..Len(returned.items) : returned.items[i] = roundtrip.value
                    /\ \A j \in 1..Len(listed(roundtrip.before, roundtrip.key)) :
                          \E i \in 1..Len(returned.items) :
                              returned.items[i] = listed(roundtrip.before, roundtrip.key)[j]
             [] fn = "operation_fs_update_type" ->
                    /\ calls[1].result = "value"
                    /\ returned.arr
                    /\ Len(returned.items) >= Len(given)
                    /\ SubSeq(returned.items, 1, Len(given)) = given
                    /\ \A i \in (Len(given) + 1)..Len(returned.items) :
                          returned.items[i] = RdfsResource

(***************************************************************************)
(* C14 (SpecTypes).  Whatever calls ran and however they interleaved, the  *)
(* "@type" of the record of every subject that has one is an array that    *)
(* contains rdfs:Resource.                                                 *)
(***************************************************************************)
C14_TypeHoldsResource ==
    \A s \in Subjects :
        files[s].st = "json"
        => /\ json_isArray(files[s].json, "@type")
           /\ includes(files[s].json["@type"].items, RdfsResource)

C14_Witness ==
    \E c \in Slots :
        /\ calls[c].pc = "done" /\ calls[c].result = "true"
        /\ Operation(calls[c]) = "operation_fs_update_type"
        /\ files[calls[c].subject].st = "json"
        /\ includes(files[calls[c].subject].json["@type"].items, "ex:a")
        /\ includes(files[calls[c].subject].json["@type"].items, RdfsResource)

(***************************************************************************)
(* C15 (SpecRefs).  The references of a subject are a set that is never    *)
(* empty: in the record of a subject, what is stored under a predicate is  *)
(* an array with at least one object and without duplicates, or the        *)
(* predicate is no key of the record; and a LIST that returns an array     *)
(* returns one with at least one object.                                   *)
(***************************************************************************)
NoDuplicates(items) == \A i, j \in 1..Len(items) : items[i] = items[j] => i = j

C15_ReferencesAreSet ==
    /\ \A s \in Subjects :
          files[s].st = "json"
          => \A p \in DOMAIN files[s].json :
                is_semantic_id(p)
                => /\ files[s].json[p].arr
                   /\ files[s].json[p].items # <<>>
                   /\ NoDuplicates(files[s].json[p].items)
    /\ \A c \in Slots :
          (calls[c].pc = "done" /\ calls[c].op = "LIST" /\ calls[c].result = "value")
          => returned_value(calls[c]).items # <<>>

C15_Witness ==
    \E c \in Slots :
        /\ calls[c].pc = "done" /\ calls[c].result = "true"
        /\ Operation(calls[c]) = "operation_fs_delete_predicate"
        /\ listed(calls[c].json, calls[c].key) = <<calls[c].value>>
        /\ files[calls[c].subject].st = "json"
        /\ calls[c].key \notin DOMAIN files[calls[c].subject].json

(***************************************************************************)
(* C16 (SpecTimeout).  A call with a positive timeout settles once, with   *)
(* what happens first.  When the operation is rejected at the call or      *)
(* settles while the call is unsettled, the call settles with the result   *)
(* or error of the operation; when the timer fires while the call is       *)
(* unsettled, the call is rejected with TimeoutError; nothing else settles *)
(* it; and once settled, its outcome never changes.                        *)
(***************************************************************************)
C16_FirstEventSettles ==
    [][\A c \in Slots :
        LET a == calls[c]
            b == calls'[c]
        IN  Timed(b)
            => /\ a.pc = "idle"
                    => IF b.pc = "done"
                       THEN b.outer = b.result
                       ELSE b.outer = "none" /\ b.timer = "armed"
               /\ a.outer # "none" => b.outer = a.outer
               /\ (a.pc # "idle" /\ a.outer = "none" /\ a.pc # "done" /\ b.pc = "done")
                    => b.outer = b.result /\ b.timer = "cleared"
               /\ (a.pc # "idle" /\ a.outer = "none" /\ b.timer = "fired")
                    => b.outer = "TimeoutError"
               /\ (a.pc # "idle" /\ a.outer = "none" /\ b.outer # "none")
                    => (a.pc # "done" /\ b.pc = "done") \/ (a.timer = "armed" /\ b.timer = "fired")]_vars

C16_Witness ==
    \E c \in Slots :
        /\ Timed(calls[c])
        /\ calls[c].outer = "TimeoutError"
        /\ calls[c].pc = "done"
        /\ calls[c].result = "true"

(***************************************************************************)
(* C17 (SpecTimeoutFair).  Every call with a positive timeout settles in   *)
(* the end, whether or not the filesystem ever calls back, given that its  *)
(* timer fires; and a call without timeout that has not settled waits for  *)
(* a request whose callback has not come yet.                              *)
(***************************************************************************)
C17_TimedCallSettles ==
    /\ \A c \in Slots : Timed(calls[c]) ~> (calls[c].outer # "none")
    /\ [](\A c \in Slots :
            (~Truthy(calls[c].timeout) /\ InFlight(calls[c])) => ENABLED FsStep(c))

C17_Witness ==
    \E c \in Slots :
        /\ Timed(calls[c])
        /\ calls[c].outer = "TimeoutError"
        /\ InFlight(calls[c])

(***************************************************************************)
(* C18 (SpecTimeout).  A timeout does not cancel the operation.  The       *)
(* operation of a call that was rejected with TimeoutError ends only with  *)
(* a result of its own, and when it was the only call and its requests     *)
(* completed, the file of its subject is what the operation makes of it:   *)
(* created with the initial record, rewritten with the record of the       *)
(* UPDATE, or removed.                                                     *)
(***************************************************************************)
C18_TimeoutDoesNotCancel ==
    \A c \in Slots :
        LET call == calls[c]
            file == files[get_file_path(call.subject)]
        IN  call.outer = "TimeoutError"
            => /\ call.pc = "done" => call.result # "none"
               /\ (Issued = {c} /\ call.pc = "done" /\ call.result = "true")
                    => CASE call.op = "CREATE" -> file = JsonFile(initial_json(call.subject))
                         [] call.op = "UPDATE" ->
                                file = JsonFile(write_json(Operation(call), call.json,
                                                           call.subject, call.key, call.value))
                         [] call.op = "DELETE" -> file = NoFile
                         [] OTHER -> TRUE

C18_Witness ==
    \E c \in Slots :
        /\ Issued = {c}
        /\ calls[c].outer = "TimeoutError"
        /\ calls[c].op = "UPDATE"
        /\ calls[c].pc = "done"
        /\ calls[c].result = "true"
        /\ includes(listed(files[get_file_path(calls[c].subject)].json, calls[c].key),
                    calls[c].value)

(***************************************************************************)
(* C19 (SpecTimeout).  A CREATE, UPDATE or DELETE call whose timeout is    *)
(* truthy and no number greater than 0 fails with an error and changes no  *)
(* file.                                                                   *)
(***************************************************************************)
C19_InvalidTimeoutNoEffect ==
    \A c \in Slots :
        ( /\ calls[c].pc # "idle"
          /\ Mistimed(calls[c])
          /\ calls[c].op \in {"CREATE", "UPDATE", "DELETE"} )
        => /\ calls[c].outer = "Error"
           /\ ~ChangedFile(calls[c])

(***************************************************************************)
(* C20 (SpecShapes).  The record of a subject s names its subject: its     *)
(* "@id" is s, whatever UPDATE calls validation accepted.                  *)
(***************************************************************************)
C20_IdIsSubject ==
    \A s \in Subjects :
        files[s].st = "json"
        => /\ "@id" \in DOMAIN files[s].json
           /\ files[s].json["@id"] = Scalar(s)

(***************************************************************************)
(* C21 (SpecLocal).  Operations are local to their subject and reads are   *)
(* pure: distinct names have distinct file names; the call and every       *)
(* filesystem step of a READ or LIST leave all files as they are; and the  *)
(* call and every filesystem step of a CREATE, UPDATE or DELETE on a       *)
(* subject leave the file of every other subject as it is.                 *)
(***************************************************************************)
Names == Subjects \cup {"ex:a", "ex:b", "ex:p", "no id"}

C21_LocalToSubject ==
    [][/\ \A s, t \in Names : s # t => file_name(s) # file_name(t)
       /\ \A c \in Slots :
            LET call == IF calls[c].pc = "idle" THEN calls'[c] ELSE calls[c]
            IN  calls'[c].pc # calls[c].pc
                => /\ call.op \in {"READ", "LIST"} => files' = files
                   /\ \A t \in Subjects : t # call.subject => files'[t] = files[t]]_vars

C21_Witness ==
    \E c \in Slots :
        /\ calls[c].pc = "done" /\ calls[c].result = "true"
        /\ calls[c].op = "UPDATE" /\ calls[c].subject = "ex:t"
        /\ files["ex:t"] = JsonFile(json_set(labelled_json("ex:t"), "label", Scalar("ex:a")))
        /\ files["ex:s"] = JsonFile(labelled_json("ex:s"))

(***************************************************************************)
(* C22 (SpecDelete).  DELETE of a whole subject returns true exactly when  *)
(* the subject had a file, which it removes, and false otherwise; of the   *)
(* DELETE calls issued together on a subject at most one returns true (and *)
(* the first to reach a file does, so exactly one when there was a file).  *)
(* While the subject stays deleted, a READ or LIST of it returns null, an  *)
(* UPDATE of it returns false, and a CREATE of it goes on to write the     *)
(* file, returns true and leaves the initial record and no earlier key.    *)
(***************************************************************************)
\* a DELETE of the subject returned true and no CREATE has created it since
Deleted(s) ==
    /\ ~created[s]
    /\ \E d \in 1..MaxDelete :
            calls[d].op = "DELETE" /\ calls[d].subject = s /\ calls[d].result = "true"

C22_DeleteWholeSubject ==
    [][/\ calls[AfterSlot].pc = "idle"
            => \A s \in Subjects :
                  Cardinality({d \in 1..MaxDelete :
                                  /\ calls[d].op = "DELETE"
                                  /\ calls[d].subject = s
                                  /\ calls[d].result = "true"}) <= 1
       /\ \A c \in Slots :
            LET a == calls[c]
                b == calls'[c]
            IN  (InFlight(a) /\ b.pc # a.pc)
                => /\ a.pc = "unlink"
                        => /\ b.pc = "done"
                           /\ b.result = IF files[a.subject].st # "none" THEN "true" ELSE "false"
                           /\ files'[a.subject] = NoFile
                   /\ (Deleted(a.subject) /\ a.op \in {"READ", "LIST"})
                        => b.pc = "done" /\ b.result = "null" /\ files' = files
                   /\ (Deleted(a.subject) /\ a.op = "UPDATE")
                        => b.pc = "done" /\ b.result = "false" /\ files' = files
                   /\ (Deleted(a.subject) /\ a.op = "CREATE" /\ a.pc = "createFile")
                        => b.pc = "writing"
                   /\ (a.op = "CREATE" /\ a.pc = "writing")
                        => /\ b.pc = "done"
                           /\ b.result = "true"
                           /\ files'[a.subject] = JsonFile(initial_json(a.subject))]_vars

C22_Witness ==
    \E c, d \in 1..MaxDelete :
        /\ calls[c].op = "DELETE" /\ calls[c].pc = "done" /\ calls[c].result = "true"
        /\ calls[d].op = "DELETE" /\ calls[d].pc = "done" /\ calls[d].result = "false"
        /\ calls[c].subject = calls[d].subject
        /\ calls[AfterSlot].op = "CREATE"
        /\ calls[AfterSlot].subject = calls[c].subject
        /\ calls[AfterSlot].pc = "done"
        /\ calls[AfterSlot].result = "true"
        /\ files[calls[c].subject] = JsonFile(initial_json(calls[c].subject))

====
